---- MODULE Spec2Model ----
(***************************************************************************)
(* Model of two fragments of the editor:                                   *)
(*   - extensions/git/src/contentProvider.ts  (GitContentProvider)         *)
(*   - the minimap colour tracker and character renderer                   *)
(*     (ParsedColor, MinimapTokensColorTracker, MinimapCharRenderer)       *)
(* Each fragment has its own specification over the shared variables.      *)
(***************************************************************************)
EXTENDS Integers, Sequences, FiniteSets, TLC

\* ------------------------------------------------------------------------
\* Bounds of the model
\* ------------------------------------------------------------------------
MaxCalls == 2        \* provideTextDocumentContent calls in one behaviour
MaxEvents == 2       \* workspace file events in one behaviour
MaxMapLen == 4       \* entries of the host's colour map
MaxColorLen == 7     \* characters of a _parseColor argument
MaxChCode == 320     \* largest character code handed to _getChIndex
TargetWidth == 3     \* width of the target ImageData, in pixels
TargetHeight == 5    \* height of the target ImageData, in pixels
MaxRenders == 1      \* render calls in one behaviour

VARIABLES
    uris,       \* GitContentProvider.uris: a Set<Uri>, kept in insertion order
    calls,      \* every provideTextDocumentContent call, in start order
    trace,      \* observable history: completions of calls and workspace events
    lastEvent,  \* the most recent workspace file event
    colorMap,   \* TokenizationRegistry.getColorMap(): the host's colour map
    _colors,    \* MinimapTokensColorTracker._colors
    lookup,     \* the last getColor call: its argument and its result
    colorInput, \* the argument of a _parseColor call
    parsed,     \* the result of that call
    chCode,     \* the argument of the last _getChIndex call
    chIndex,    \* the result of that call
    target,     \* the target ImageData: width, height, data (RGBA bytes)
    render,     \* the last x2RenderChar / x1RenderChar call and what it did
    renders     \* number of render calls so far

gitVars == <<uris, calls, trace, lastEvent>>
trackerVars == <<colorMap, _colors, lookup>>
parseVars == <<colorInput, parsed>>
glyphVars == <<chCode, chIndex>>
renderVars == <<target, render, renders>>
vars == <<gitVars, trackerVars, parseVars, glyphVars, renderVars>>

\* ------------------------------------------------------------------------
\* ParsedColor and MinimapTokensColorTracker
\* ------------------------------------------------------------------------

\* new ParsedColor(r, g, b); isLight is (r + g + b) / (3 * 255) > 0.5.
ParsedColor(r, g, b) ==
    [tag |-> "ParsedColor", r |-> r, g |-> g, b |-> b,
     isLight |-> (2 * (r + g + b) > 3 * 255)]

\* The JavaScript values null and undefined, shaped like a ParsedColor so
\* that they compare with one.
Null == [tag |-> "null", r |-> 0, g |-> 0, b |-> 0, isLight |-> FALSE]
Undefined == [tag |-> "undefined", r |-> 0, g |-> 0, b |-> 0, isLight |-> FALSE]

\* a[i] of a JavaScript array held as a sequence (a[0] is the first element):
\* undefined outside 0 .. a.length - 1.
ArrayGet(a, i) == IF i \in 0..(Len(a) - 1) THEN a[i + 1] ELSE Undefined

\* The colours a colour map may hold, as the {r, g, b} of Color.toRGBA().
Palette == { [r |-> 255, g |-> 255, b |-> 255],
             [r |-> 30,  g |-> 30,  b |-> 30],
             [r |-> 200, g |-> 0,   b |-> 90] }

ColorMaps == UNION {[1..n -> Palette] : n \in 0..MaxMapLen}

\* _setColorMap: _colors = [null], then _colors[colorId] for every colorId
\* from 1 below colorMap.length.
SetColorMapTable(m) ==
    [i \in 1..(IF Len(m) = 0 THEN 1 ELSE Len(m)) |->
        IF i = 1 THEN Null
        ELSE ParsedColor(ArrayGet(m, i - 1).r, ArrayGet(m, i - 1).g,
                         ArrayGet(m, i - 1).b)]

\* getColor
getColorMutant(table, colorId) ==
    ArrayGet(table, IF colorId < 1 \/ colorId > Len(table) THEN 2 ELSE colorId)
getColor(table, colorId) ==
    ArrayGet(table, IF colorId < 1 \/ colorId >= Len(table) THEN 2 ELSE colorId)

NoLookup == [called |-> FALSE, colorId |-> 0, result |-> Null]

TrackerIdle ==
    /\ colorMap = <<>>
    /\ _colors = <<Null>>
    /\ lookup = NoLookup

\* The constructor: _setColorMap(TokenizationRegistry.getColorMap()).
TrackerStart ==
    /\ colorMap \in ColorMaps
    /\ _colors = SetColorMapTable(colorMap)
    /\ lookup = NoLookup

\* TokenizationRegistry.onDidChange with changedColorMap: the table is
\* rebuilt from the new colour map. (_onDidChange.fire only calls the
\* listeners; it leaves the tracker's state alone.)
ColorMapChanged(m) ==
    /\ m # colorMap
    /\ colorMap' = m
    /\ _colors' = SetColorMapTable(m)
    /\ lookup' = NoLookup
    /\ UNCHANGED <<gitVars, parseVars, glyphVars, renderVars>>

\* getColor(colorId)
GetColor(colorId) ==
    /\ lookup' = [called |-> TRUE, colorId |-> colorId,
                  result |-> getColor(_colors, colorId)]
    /\ UNCHANGED <<colorMap, _colors>>
    /\ UNCHANGED <<gitVars, parseVars, glyphVars, renderVars>>

TrackerNext ==
    \/ \E m \in ColorMaps : ColorMapChanged(m)
    \/ \E colorId \in (-1)..(MaxMapLen + 2) : GetColor(colorId)

\* ------------------------------------------------------------------------
\* MinimapTokensColorTracker._parseColor
\* ------------------------------------------------------------------------

\* The characters of the strings handed to _parseColor.
Alphabet == {"#", "1", "F", "g"}

\* String.prototype.charCodeAt for these characters.
CharCodeOf(c) ==
    CASE c = "#" -> 35
      [] c = "1" -> 49
      [] c = "F" -> 70
      [] c = "g" -> 103

\* _parseHexDigit
_parseHexDigit(charCode) ==
    IF charCode \in 48..57 THEN charCode - 48
    ELSE IF charCode \in 97..102 THEN charCode - 97 + 10
    ELSE IF charCode \in 65..70 THEN charCode - 65 + 10
    ELSE 0

\* String.prototype.substr(start, length) on a string held as a sequence.
Substr(s, start, length) ==
    SubSeq(s, start + 1, IF start + length > Len(s) THEN Len(s) ELSE start + length)

\* A _parseColor argument: a string, or a missing value (null, undefined).
Missing == [given |-> FALSE, chars |-> <<>>]
Str(cs) == [given |-> TRUE, chars |-> cs]

ColorInputs ==
    {Missing} \cup {Str(cs) : cs \in UNION {[1..n -> Alphabet] : n \in 0..MaxColorLen}}

\* _parseColor
_parseColor(color) ==
    IF ~color.given \/ color.chars = <<>> THEN ParsedColor(0, 0, 0)
    ELSE LET c == IF CharCodeOf(color.chars[1]) = 35
                  THEN Substr(color.chars, 1, 6)
                  ELSE Substr(color.chars, 0, 6)
             d(i) == _parseHexDigit(CharCodeOf(c[i]))
         IN  IF Len(c) # 6 THEN ParsedColor(0, 0, 0)
             ELSE ParsedColor(16 * d(1) + d(2), 16 * d(3) + d(4), 16 * d(5) + d(6))

ParseIdle ==
    /\ colorInput = Missing
    /\ parsed = Null

ParseStart ==
    /\ colorInput \in ColorInputs
    /\ parsed = Null

\* MinimapTokensColorTracker._parseColor(colorInput)
ParseColor ==
    /\ parsed = Null
    /\ parsed' = _parseColor(colorInput)
    /\ UNCHANGED colorInput
    /\ UNCHANGED <<gitVars, trackerVars, glyphVars, renderVars>>

ParseNext == ParseColor

\* ------------------------------------------------------------------------
\* MinimapCharRenderer._getChIndex
\* ------------------------------------------------------------------------

START_CH_CODE == 32
END_CH_CODE == 126
CHAR_COUNT == END_CH_CODE - START_CH_CODE + 1
x2_CHAR_HEIGHT == 4
x2_CHAR_WIDTH == 2
x1_CHAR_HEIGHT == 2
x1_CHAR_WIDTH == 1
RGBA_CHANNELS_CNT == 4

\* The JavaScript remainder a % b for b > 0: it takes the sign of a.
JsRem(a, b) == IF a >= 0 THEN a % b ELSE 0 - ((0 - a) % b)

\* _getChIndex
_getChIndexMutant(c) == JsRem(c - START_CH_CODE, CHAR_COUNT)
_getChIndex(c) ==
    LET shifted == c - START_CH_CODE
        wrapped == IF shifted < 0 THEN shifted + CHAR_COUNT ELSE shifted
    IN  JsRem(wrapped, CHAR_COUNT)

GlyphIdle ==
    /\ chCode = START_CH_CODE
    /\ chIndex = 0

\* MinimapCharRenderer._getChIndex(c), as x2RenderChar and x1RenderChar call it.
GetChIndex(c) ==
    /\ chCode' = c
    /\ chIndex' = _getChIndex(c)
    /\ UNCHANGED <<gitVars, trackerVars, parseVars, renderVars>>

GlyphNext == \E c \in 0..MaxChCode : GetChIndex(c)

\* ------------------------------------------------------------------------
\* MinimapCharRenderer: x2RenderChar and x1RenderChar
\* ------------------------------------------------------------------------

\* The conversion of the number n / d (d > 0) stored into a
\* Uint8ClampedArray: clamped to 0 .. 255, rounded to the nearest integer,
\* a tie to the even one.
ToUint8Clamped(n, d) ==
    LET q == n \div d
        r == n % d
        rounded == IF 2 * r < d THEN q
                   ELSE IF 2 * r > d THEN q + 1
                   ELSE IF q % 2 = 0 THEN q ELSE q + 1
    IN  IF n < 0 THEN 0 ELSE IF rounded > 255 THEN 255 ELSE rounded

\* The lengths the constructor requires of the two glyph atlases.
x2ExpectedLen == x2_CHAR_HEIGHT * x2_CHAR_WIDTH * CHAR_COUNT
x1ExpectedLen == x1_CHAR_HEIGHT * x1_CHAR_WIDTH * CHAR_COUNT

\* The atlases handed to the constructor (sample intensities), indexed from 0.
x2charData == [i \in 0..(x2ExpectedLen - 1) |-> (i * 37 + 11) % 256]
x1charData == [i \in 0..(x1ExpectedLen - 1) |-> 2 * ((i * 29 + 3) % 128)]

\* soften(input, num / den): every intensity scaled by the ratio.
soften(input, num, den) ==
    [i \in DOMAIN input |-> ToUint8Clamped(input[i] * num, den)]

x2charDataLight == soften(x2charData, 12, 15)
x1charDataLight == soften(x1charData, 50, 60)

\* chIndex * CHAR_HEIGHT * CHAR_WIDTH: where the glyph starts in its atlas.
X2SourceOffset(ci) == ci * x2_CHAR_HEIGHT * x2_CHAR_WIDTH
X1SourceOffset(ci) == ci * x1_CHAR_HEIGHT * x1_CHAR_WIDTH

\* outWidth: bytes per row of the target.
OutWidth(t) == t.width * RGBA_CHANNELS_CNT

\* The three stores dest[destOffset + 0 .. 2] = background + delta * c of one
\* sample pixel, c = sample / 255, in the order of the code.
PixelWritesMutant(destOffset, sample, color, bg) ==
    << [idx |-> destOffset + 0,
        val |-> ToUint8Clamped(bg.r * 255 + (color.r - bg.r) * sample, 255)],
       [idx |-> destOffset + 1,
        val |-> ToUint8Clamped(bg.g * 255 + (color.g - bg.g) * sample, 255)],
       [idx |-> destOffset + 3,
        val |-> ToUint8Clamped(bg.b * 255 + (color.b - bg.b) * sample, 255)] >>
PixelWrites(destOffset, sample, color, bg) ==
    << [idx |-> destOffset + 0,
        val |-> ToUint8Clamped(bg.r * 255 + (color.r - bg.r) * sample, 255)],
       [idx |-> destOffset + 1,
        val |-> ToUint8Clamped(bg.g * 255 + (color.g - bg.g) * sample, 255)],
       [idx |-> destOffset + 2,
        val |-> ToUint8Clamped(bg.b * 255 + (color.b - bg.b) * sample, 255)] >>

\* The guard of x2RenderChar: the request is refused with a warning.
X2Refused(t, dx, dy) ==
    dx + x2_CHAR_WIDTH > t.width \/ dy + x2_CHAR_HEIGHT > t.height

\* The guard of x1RenderChar.
X1Refused(t, dx, dy) ==
    dx + x1_CHAR_WIDTH > t.width \/ dy + x1_CHAR_HEIGHT > t.height

\* The stores of x2RenderChar past its guard, in order: four rows of two
\* sample pixels, destOffset advancing by outWidth after each row.
X2Writes(t, dx, dy, ch, color, bg) ==
    LET atlas == IF bg.isLight THEN x2charDataLight ELSE x2charData
        so == X2SourceOffset(_getChIndex(ch))
        d0 == dy * OutWidth(t) + dx * RGBA_CHANNELS_CNT
        d1 == d0 + OutWidth(t)
        d2 == d1 + OutWidth(t)
        d3 == d2 + OutWidth(t)
    IN  PixelWrites(d0 + 0, atlas[so], color, bg)
        \o PixelWrites(d0 + 4, atlas[so + 1], color, bg)
        \o PixelWrites(d1 + 0, atlas[so + 2], color, bg)
        \o PixelWrites(d1 + 4, atlas[so + 3], color, bg)
        \o PixelWrites(d2 + 0, atlas[so + 4], color, bg)
        \o PixelWrites(d2 + 4, atlas[so + 5], color, bg)
        \o PixelWrites(d3 + 0, atlas[so + 6], color, bg)
        \o PixelWrites(d3 + 4, atlas[so + 7], color, bg)

\* The stores of x1RenderChar past its guard: two rows of one sample pixel.
X1Writes(t, dx, dy, ch, color, bg) ==
    LET atlas == IF bg.isLight THEN x1charDataLight ELSE x1charData
        so == X1SourceOffset(_getChIndex(ch))
        d0 == dy * OutWidth(t) + dx * RGBA_CHANNELS_CNT
        d1 == d0 + OutWidth(t)
    IN  PixelWrites(d0 + 0, atlas[so], color, bg)
        \o PixelWrites(d1 + 0, atlas[so + 1], color, bg)

RECURSIVE StoreAll(_, _)
\* The stores applied in order to a typed array held as a sequence (data[0]
\* is the first element): a store at an index outside the array is ignored.
StoreAll(data, writes) ==
    IF writes = <<>> THEN data
    ELSE LET w == Head(writes)
         IN  StoreAll(IF w.idx \in 0..(Len(data) - 1)
                      THEN [data EXCEPT ![w.idx + 1] = w.val]
                      ELSE data,
                      Tail(writes))

\* The indices of the array that the stores reach.
StoredIndices(data, writes) ==
    {writes[k].idx : k \in 1..Len(writes)} \cap (0..(Len(data) - 1))

\* A fresh ImageData of the given size: every pixel (7, 7, 7, 255).
NewImageData(w, h) ==
    [width |-> w, height |-> h,
     data |-> [i \in 1..(w * h * RGBA_CHANNELS_CNT) |->
                  IF i % RGBA_CHANNELS_CNT = 0 THEN 255 ELSE 7]]

NoRender ==
    [kind |-> "none", dx |-> 0, dy |-> 0, warned |-> FALSE,
     before |-> <<>>, written |-> {}]

\* The (color, backgroundColor) arguments of a render call: light on dark,
\* dark on light.
ColorPairs ==
    { <<ParsedColor(255, 255, 255), ParsedColor(30, 30, 30)>>,
      <<ParsedColor(0, 0, 160), ParsedColor(255, 255, 255)>> }

\* The character codes of a render call: one below the range, and "A".
RenderChCodes == {START_CH_CODE - 1, 65}

RenderIdle ==
    /\ target = NewImageData(TargetWidth, TargetHeight)
    /\ render = NoRender
    /\ renders = 0

\* x2RenderChar(target, dx, dy, ch, color, bg)
X2RenderChar(dx, dy, ch, color, bg) ==
    /\ renders < MaxRenders
    /\ renders' = renders + 1
    /\ IF X2Refused(target, dx, dy)
       THEN /\ target' = target
            /\ render' = [kind |-> "x2", dx |-> dx, dy |-> dy, warned |-> TRUE,
                          before |-> target.data, written |-> {}]
       ELSE LET ws == X2Writes(target, dx, dy, ch, color, bg)
            IN  /\ target' = [target EXCEPT !.data = StoreAll(target.data, ws)]
                /\ render' = [kind |-> "x2", dx |-> dx, dy |-> dy,
                              warned |-> FALSE, before |-> target.data,
                              written |-> StoredIndices(target.data, ws)]
    /\ UNCHANGED <<gitVars, trackerVars, parseVars, glyphVars>>

\* x1RenderChar(target, dx, dy, ch, color, bg)
X1RenderChar(dx, dy, ch, color, bg) ==
    /\ renders < MaxRenders
    /\ renders' = renders + 1
    /\ IF X1Refused(target, dx, dy)
       THEN /\ target' = target
            /\ render' = [kind |-> "x1", dx |-> dx, dy |-> dy, warned |-> TRUE,
                          before |-> target.data, written |-> {}]
       ELSE LET ws == X1Writes(target, dx, dy, ch, color, bg)
            IN  /\ target' = [target EXCEPT !.data = StoreAll(target.data, ws)]
                /\ render' = [kind |-> "x1", dx |-> dx, dy |-> dy,
                              warned |-> FALSE, before |-> target.data,
                              written |-> StoredIndices(target.data, ws)]
    /\ UNCHANGED <<gitVars, trackerVars, parseVars, glyphVars>>

RenderNext ==
    \/ \E dx \in (-1)..TargetWidth : \E dy \in (-1)..TargetHeight :
       \E ch \in RenderChCodes : \E p \in ColorPairs :
          X2RenderChar(dx, dy, ch, p[1], p[2])
    \/ \E dx \in (-1)..TargetWidth : \E dy \in (-1)..TargetHeight :
       \E ch \in RenderChCodes : \E p \in ColorPairs :
          X1RenderChar(dx, dy, ch, p[1], p[2])

\* ------------------------------------------------------------------------
\* GitContentProvider
\* ------------------------------------------------------------------------

\* Uri objects handed to provideTextDocumentContent. A JavaScript Set holds
\* objects by reference, so each element here is one Uri object.
Uris == {"u1", "u2"}

\* What model.show may resolve to (an empty file's content is "").
Contents == {"", "text"}

\* Workspace file events. inWs: the file is inside the workspace folder;
\* segs: the path segments below the workspace root (inWs) or below "/".
FileEvents ==
    { [inWs |-> TRUE,  segs |-> <<".git", "HEAD">>],
      [inWs |-> TRUE,  segs |-> <<".git", "index.lock">>],
      [inWs |-> TRUE,  segs |-> <<".git", "refs", "index.lock">>],
      [inWs |-> TRUE,  segs |-> <<".git">>],
      [inWs |-> TRUE,  segs |-> <<"src", "a.ts">>],
      [inWs |-> TRUE,  segs |-> <<"sub", ".git", "index.lock">>],
      [inWs |-> FALSE, segs |-> <<"other", ".git", "index.lock">>] }

\* The workspace root, as the tokens of its path string.
WorkspaceRoot == <<"/", "ws">>

RECURSIVE JoinPath(_)
\* The string "a/b/c" of the segments <<a, b, c>>, as a sequence of tokens
\* in which every separator is a token of its own.
JoinPath(segs) ==
    IF Len(segs) = 0 THEN <<>>
    ELSE IF Len(segs) = 1 THEN <<segs[1]>>
    ELSE <<segs[1], "/">> \o JoinPath(Tail(segs))

\* uri.fsPath: the absolute path string of the file.
fsPath(e) ==
    IF e.inWs THEN WorkspaceRoot \o <<"/">> \o JoinPath(e.segs)
    ELSE <<"/">> \o JoinPath(e.segs)

\* workspace.asRelativePath(uri): the path relative to the workspace root for
\* a file inside the workspace, the path unchanged for any other file.
asRelativePath(e) ==
    IF e.inWs THEN JoinPath(e.segs) ELSE fsPath(e)

\* /^\.git\//.test(s)
TestGitPrefix(s) ==
    /\ Len(s) >= 2
    /\ SubSeq(s, 1, 2) = <<".git", "/">>

\* /\/\.git\/index\.lock$/.test(s)
TestIndexLock(s) ==
    /\ Len(s) >= 4
    /\ SubSeq(s, Len(s) - 3, Len(s)) = <<"/", ".git", "/", "index.lock">>

\* onGitChange = filterEvent(onWorkspaceChange, ...)
OnGitChange(e) == TestGitPrefix(asRelativePath(e))

\* onRelevantGitChange = filterEvent(onGitChange, ...)
OnRelevantGitChangeMutant(e) == OnGitChange(e)
OnRelevantGitChange(e) == OnGitChange(e) /\ ~TestIndexLock(fsPath(e))

\* Set.prototype.add: appends unless present (insertion order is kept).
SetHas(s, u) == \E i \in 1..Len(s) : s[i] = u
SetAdd(s, u) == IF SetHas(s, u) THEN s ELSE Append(s, u)

\* Set.prototype.delete
SetDeleteMutant(s, u) == <<>>
SetDelete(s, u) == SelectSeq(s, LAMBDA x : x # u)

\* fireChangeEvents: one onDidChangeEmitter.fire(uri) per element of uris,
\* in iteration order. The value is the sequence of notifications.
fireChangeEvents(s) == s

\* The try branch of provideTextDocumentContent after model.show resolved.
UrisAfterSuccessMutant(s, u) == s
UrisAfterSuccess(s, u) == SetAdd(s, u)
ReturnOnSuccessMutant(c) == ""
ReturnOnSuccess(c) == c

\* The catch branch of provideTextDocumentContent.
UrisAfterFailureMutant(s, u) == s
UrisAfterFailure(s, u) == SetDelete(s, u)
ReturnOnFailure == ""
\* How the returned promise settles after a failure of model.show.
SettleOnFailure == "resolved"

NoEvent == [inWs |-> FALSE, segs |-> <<>>]

\* A call completed: which call, for which Uri, and whether model.show succeeded.
DoneEntry(i, u, ok) ==
    [kind |-> "done", call |-> i, uri |-> u, ok |-> ok,
     passed |-> FALSE, fired |-> <<>>]

\* A workspace event was handled: whether it passed the filters, and the
\* onDidChange notifications it fired, in order.
ChangeEntry(passed, fired) ==
    [kind |-> "change", call |-> 0, uri |-> "", ok |-> FALSE,
     passed |-> passed, fired |-> fired]

NumEvents == Cardinality({k \in 1..Len(trace) : trace[k].kind = "change"})

GitIdle ==
    /\ uris = <<>>
    /\ calls = <<>>
    /\ trace = <<>>
    /\ lastEvent = NoEvent

\* provideTextDocumentContent(u) up to its await: model.show is queried once
\* and the call suspends.
Provide(u) ==
    /\ Len(calls) < MaxCalls
    /\ calls' = Append(calls, [uri |-> u, state |-> "pending", value |-> "",
                               queries |-> 1, showOk |-> FALSE, shown |-> ""])
    /\ UNCHANGED <<uris, trace, lastEvent>>
    /\ UNCHANGED <<trackerVars, parseVars, glyphVars, renderVars>>

\* model.show resolves with content c: the call resumes in the try block.
ShowResolves(i, c) ==
    /\ calls[i].state = "pending"
    /\ uris' = UrisAfterSuccess(uris, calls[i].uri)
    /\ calls' = [calls EXCEPT ![i].state = "resolved",
                              ![i].value = ReturnOnSuccess(c),
                              ![i].showOk = TRUE,
                              ![i].shown = c]
    /\ trace' = Append(trace, DoneEntry(i, calls[i].uri, TRUE))
    /\ UNCHANGED lastEvent
    /\ UNCHANGED <<trackerVars, parseVars, glyphVars, renderVars>>

\* model.show rejects: the call resumes in the catch block.
ShowRejects(i) ==
    /\ calls[i].state = "pending"
    /\ uris' = UrisAfterFailure(uris, calls[i].uri)
    /\ calls' = [calls EXCEPT ![i].state = SettleOnFailure,
                              ![i].value = ReturnOnFailure]
    /\ trace' = Append(trace, DoneEntry(i, calls[i].uri, FALSE))
    /\ UNCHANGED lastEvent
    /\ UNCHANGED <<trackerVars, parseVars, glyphVars, renderVars>>

\* provideTextDocumentContent(u) when model.show throws before returning a
\* promise: the catch block runs within the call itself.
ProvideShowThrows(u) ==
    /\ Len(calls) < MaxCalls
    /\ uris' = UrisAfterFailure(uris, u)
    /\ calls' = Append(calls, [uri |-> u, state |-> SettleOnFailure,
                               value |-> ReturnOnFailure,
                               queries |-> 1, showOk |-> FALSE, shown |-> ""])
    /\ trace' = Append(trace, DoneEntry(Len(calls) + 1, u, FALSE))
    /\ UNCHANGED lastEvent
    /\ UNCHANGED <<trackerVars, parseVars, glyphVars, renderVars>>

\* A workspace file event: delivered to fireChangeEvents when it passes
\* both filters, dropped otherwise.
WorkspaceChange(e) ==
    /\ NumEvents < MaxEvents
    /\ trace' = Append(trace,
                       IF OnRelevantGitChange(e)
                       THEN ChangeEntry(TRUE, fireChangeEvents(uris))
                       ELSE ChangeEntry(FALSE, <<>>))
    /\ lastEvent' = e
    /\ UNCHANGED <<uris, calls>>
    /\ UNCHANGED <<trackerVars, parseVars, glyphVars, renderVars>>

GitNext ==
    \/ \E u \in Uris : Provide(u)
    \/ \E i \in 1..Len(calls) : \E c \in Contents : ShowResolves(i, c)
    \/ \E i \in 1..Len(calls) : ShowRejects(i)
    \/ \E u \in Uris : ProvideShowThrows(u)
    \/ \E e \in FileEvents : WorkspaceChange(e)

\* ------------------------------------------------------------------------
\* Specifications: one per fragment; the other fragments stay idle
\* ------------------------------------------------------------------------

GitInit == GitIdle /\ TrackerIdle /\ ParseIdle /\ GlyphIdle /\ RenderIdle
GitSpec == GitInit /\ [][GitNext]_vars

TrackerInit == TrackerStart /\ GitIdle /\ ParseIdle /\ GlyphIdle /\ RenderIdle
TrackerSpec == TrackerInit /\ [][TrackerNext]_vars

ParseInit == ParseStart /\ GitIdle /\ TrackerIdle /\ GlyphIdle /\ RenderIdle
ParseSpec == ParseInit /\ [][ParseNext]_vars

GlyphInit == GlyphIdle /\ GitIdle /\ TrackerIdle /\ ParseIdle /\ RenderIdle
GlyphSpec == GlyphInit /\ [][GlyphNext]_vars

RenderInit == RenderIdle /\ GitIdle /\ TrackerIdle /\ ParseIdle /\ GlyphIdle
RenderSpec == RenderInit /\ [][RenderNext]_vars

\* ------------------------------------------------------------------------
\* Properties of GitContentProvider
\* ------------------------------------------------------------------------

Range(s) == {s[i] : i \in 1..Len(s)}

IsDone(k, u, ok) ==
    trace[k].kind = "done" /\ trace[k].uri = u /\ trace[k].ok = ok

IsRelevantChange(k) == trace[k].kind = "change" /\ trace[k].passed

\* No workspace event between entries j and k passed the filters: if entry k
\* is a relevant change event, it is the first one after entry j.
NoRelevantChangeBetween(j, k) ==
    \A m \in (j + 1)..(k - 1) : ~IsRelevantChange(m)

\* The completions of calls for u among the first n entries of the trace.
DonesBefore(u, n) == {k \in 1..n : trace[k].kind = "done" /\ trace[k].uri = u}

Max(S) == CHOOSE x \in S : \A y \in S : y <= x

\* The last call for u to complete among the first n entries failed.
LastDoneFailed(u, n) ==
    /\ DonesBefore(u, n) # {}
    /\ ~trace[Max(DonesBefore(u, n))].ok

\* The last call for u to complete among the first n entries succeeded.
LastDoneSucceeded(u, n) ==
    /\ DonesBefore(u, n) # {}
    /\ trace[Max(DonesBefore(u, n))].ok

\* C1 as stated: once a provideTextDocumentContent(u) call has succeeded, the
\* next workspace change event that passes the filters fires onDidChange for
\* u, whatever other resolutions completed in between.
C1_AsStated ==
    \A k \in 1..Len(trace) :
        IsRelevantChange(k) =>
            \A j \in 1..(k - 1) : \A u \in Uris :
                (IsDone(j, u, TRUE) /\ NoRelevantChangeBetween(j, k))
                    => u \in Range(trace[k].fired)

\* C1 amended: once a provideTextDocumentContent(u) call has succeeded, the
\* next workspace change event that passes the filters fires onDidChange for
\* u, whatever resolutions of other URIs (succeeding or failing) and whatever
\* successful resolutions of u completed in between, provided no
\* provideTextDocumentContent(u) call failed in between.
C1_Amended ==
    \A k \in 1..Len(trace) :
        IsRelevantChange(k) =>
            \A j \in 1..(k - 1) : \A u \in Uris :
                (/\ IsDone(j, u, TRUE)
                 /\ NoRelevantChangeBetween(j, k)
                 /\ \A m \in (j + 1)..(k - 1) : ~IsDone(m, u, FALSE))
                    => u \in Range(trace[k].fired)

\* A success of u1, then a resolution of another URI failing, then the next
\* relevant change event, which notifies u1.
C1_Witness ==
    \E j, m, k \in 1..Len(trace) :
        /\ j < m /\ m < k
        /\ IsDone(j, "u1", TRUE)
        /\ IsDone(m, "u2", FALSE)
        /\ IsRelevantChange(k)
        /\ NoRelevantChangeBetween(j, k)
        /\ "u1" \in Range(trace[k].fired)

\* C2: when a provideTextDocumentContent(u) call fails, u is absent from the
\* refresh set once the call has completed, and no workspace change event
\* fires onDidChange for u until a later resolution of u succeeds; also when
\* an earlier successful resolution had added u.
C2_FailureEvicts ==
    /\ \A u \in Uris : LastDoneFailed(u, Len(trace)) => ~SetHas(uris, u)
    /\ \A k \in 1..Len(trace) :
          trace[k].kind = "change" =>
              \A u \in Range(trace[k].fired) : ~LastDoneFailed(u, k)

\* u1 was added by a success, then a resolution of u1 failed, and a relevant
\* change event followed that did not notify u1.
C2_Witness ==
    \E i, j, k \in 1..Len(trace) :
        /\ i < j /\ j < k
        /\ IsDone(i, "u1", TRUE)
        /\ IsDone(j, "u1", FALSE)
        /\ IsRelevantChange(k)
        /\ LastDoneFailed("u1", k)
        /\ "u1" \notin Range(trace[k].fired)

\* C3: provideTextDocumentContent never completes with an error: a completed
\* call resolved to exactly the content model.show returned, or to the empty
\* string when model.show failed, and model.show was queried once per call.
C3_NeverRejects ==
    \A i \in 1..Len(calls) :
        /\ calls[i].queries = 1
        /\ calls[i].state \in {"pending", "resolved"}
        /\ calls[i].state = "resolved" =>
              calls[i].value = (IF calls[i].showOk THEN calls[i].shown ELSE "")

\* One call resolved to the non-empty content of model.show, another call
\* resolved to "" after model.show failed.
C3_Witness ==
    \E i, j \in 1..Len(calls) :
        /\ calls[i].state = "resolved" /\ calls[i].showOk
        /\ calls[i].shown = "text" /\ calls[i].value = "text"
        /\ calls[j].state = "resolved" /\ ~calls[j].showOk
        /\ calls[j].value = ""

\* The file of the event lies below <workspace>/.git/.
UnderGitDir(e) == e.inWs /\ Len(e.segs) >= 2 /\ e.segs[1] = ".git"

\* The file of the event is the index lock file <workspace>/.git/index.lock.
IsIndexLockFile(e) == e.inWs /\ e.segs = <<".git", "index.lock">>

\* The trace entry of the most recent workspace event.
LastChange ==
    trace[Max({k \in 1..Len(trace) : trace[k].kind = "change"})]

Quiescent(u) ==
    \A i \in 1..Len(calls) : calls[i].uri = u => calls[i].state # "pending"

\* A step that changes whether u is in the refresh set is the completion of
\* a call for u: a success if u was added, a failure if u was removed.
OnlyOwnResolutionChanges(u) ==
    (SetHas(uris, u) # SetHas(uris', u)) =>
        /\ Len(trace') = Len(trace) + 1
        /\ trace'[Len(trace')].kind = "done"
        /\ trace'[Len(trace')].uri = u
        /\ trace'[Len(trace')].ok = SetHas(uris', u)

\* C10: once every call for u has completed, u is in the refresh set if and
\* only if the call for u that completed last succeeded; a resolution of one
\* URI never adds or removes another, and only a failed resolution of u
\* removes u.
C10_LastCompletionDecides ==
    /\ [](\A u \in Uris :
            Quiescent(u) =>
                (SetHas(uris, u) <=> LastDoneSucceeded(u, Len(trace))))
    /\ [][\A u \in Uris : OnlyOwnResolutionChanges(u)]_vars

\* Two overlapping calls for u1: the one started second succeeded first, the
\* one started first failed last, and u1 is not in the refresh set.
C10_Witness ==
    /\ Len(calls) >= 2 /\ Len(trace) >= 2
    /\ calls[1].uri = "u1" /\ calls[2].uri = "u1"
    /\ trace[1] = DoneEntry(2, "u1", TRUE)
    /\ trace[2] = DoneEntry(1, "u1", FALSE)
    /\ ~SetHas(uris, "u1")

\* ------------------------------------------------------------------------
\* Properties of the colour tracker and the character renderer
\* ------------------------------------------------------------------------

\* C5: getColor(id) is the table's colour for id when 1 <= id < table
\* length, which is the colour of entry id of the colour map, and is what the
\* table holds for the background identifier 2 when id < 1 or id >= table
\* length.
C5_GetColorClamps ==
    lookup.called =>
        LET id == lookup.colorId
        IN  IF 1 <= id /\ id < Len(_colors)
            THEN /\ lookup.result = ArrayGet(_colors, id)
                 /\ lookup.result = ParsedColor(colorMap[id + 1].r,
                                                colorMap[id + 1].g,
                                                colorMap[id + 1].b)
            ELSE /\ lookup.result = ArrayGet(_colors, 2)
                 /\ Len(colorMap) > 2 =>
                       lookup.result = ParsedColor(colorMap[3].r, colorMap[3].g,
                                                   colorMap[3].b)

\* The identifier equal to the table length was looked up in a table of four
\* entries and gave the colour of identifier 2, which differs from the
\* colours of identifiers 1 and 3.
C5_Witness ==
    /\ lookup.called
    /\ Len(_colors) = 4
    /\ lookup.colorId = Len(_colors)
    /\ lookup.result = _colors[3]
    /\ lookup.result.tag = "ParsedColor"
    /\ _colors[3] # _colors[2]
    /\ _colors[3] # _colors[4]

HexChars ==
    {"0", "1", "2", "3", "4", "5", "6", "7", "8", "9",
     "a", "b", "c", "d", "e", "f", "A", "B", "C", "D", "E", "F"}

\* The input without one optional leading "#", cut to 6 characters.
Normalized(in) ==
    LET body == IF in.chars # <<>> /\ in.chars[1] = "#"
                THEN Tail(in.chars) ELSE in.chars
    IN  SubSeq(body, 1, IF Len(body) > 6 THEN 6 ELSE Len(body))

SixHexDigits(cs) == Len(cs) = 6 /\ \A i \in 1..6 : cs[i] \in HexChars

\* C6 as stated: _parseColor of an input that, after normalization, is not
\* exactly 6 hexadecimal digits is black (0, 0, 0).
C6_AsStated ==
    (parsed # Null /\ ~SixHexDigits(Normalized(colorInput)))
        => parsed = ParsedColor(0, 0, 0)

\* C8: for every character code the glyph index is (code - 32) modulo 95 and
\* lies in 0 .. 94; code 31 selects glyph 94 and code 127 glyph 0; the reads
\* of the glyph's samples fall inside both atlases.
C8_ChIndexWraps ==
    /\ chIndex = (chCode - 32) % 95
    /\ chIndex \in 0..94
    /\ chCode = 31 => chIndex = 94
    /\ chCode = 127 => chIndex = 0
    /\ \A k \in 0..7 : X2SourceOffset(chIndex) + k \in DOMAIN x2charData
    /\ \A k \in 0..1 : X1SourceOffset(chIndex) + k \in DOMAIN x1charData

\* The code one below the supported range was mapped to the last glyph.
C8_Witness == chCode = 31 /\ chIndex = 94

\* The glyph rectangle of the last render call: its width and height.
GlyphW == IF render.kind = "x2" THEN 2 ELSE 1
GlyphH == IF render.kind = "x2" THEN 4 ELSE 2

\* The glyph rectangle lies entirely inside the target.
RectInside ==
    /\ 0 <= render.dx /\ render.dx + GlyphW <= target.width
    /\ 0 <= render.dy /\ render.dy + GlyphH <= target.height

\* The indices of the R, G and B bytes of the pixels of the glyph rectangle.
RectRGB ==
    { (y * target.width + x) * 4 + c :
        x \in render.dx..(render.dx + GlyphW - 1),
        y \in render.dy..(render.dy + GlyphH - 1),
        c \in 0..2 }

\* C7 as stated: a render call whose glyph rectangle is not entirely inside
\* the target (too far right or down, or a negative dx or dy) writes no byte
\* of the target buffer.
C7_AsStated ==
    (render.kind # "none" /\ ~RectInside) =>
        /\ render.written = {}
        /\ target.data = render.before

\* C9: an accepted render call stores into exactly the R, G and B bytes of
\* the pixels of its glyph rectangle; every alpha byte and every byte of a
\* pixel outside the rectangle keeps its value.
C9_WritesOnlyRectRGB ==
    (render.kind # "none" /\ RectInside) =>
        /\ ~render.warned
        /\ render.written = RectRGB
        /\ \A i \in (0..(Len(target.data) - 1)) \ RectRGB :
              target.data[i + 1] = render.before[i + 1]

\* An x2 glyph was rendered at (1, 1) and changed the buffer.
C9_Witness ==
    /\ render.kind = "x2"
    /\ render.dx = 1 /\ render.dy = 1
    /\ ~render.warned
    /\ target.data # render.before

====
